---- MODULE Spec2Model ----
(***************************************************************************)
(* The debugger ConnectionMultiplexer of nuclide's debugger-hhvm-proxy     *)
(* (pkg/nuclide/debugger-hhvm-proxy/lib/ConnectionMultiplexer.js) as a     *)
(* state machine.  Every callback of the class (listen, _onAttach and its  *)
(* continuation after the awaited status query, the per-connection status  *)
(* callback, the connector's close callback, dispose) is one action; the   *)
(* private methods they call are operators on a record holding the fields  *)
(* of the multiplexer, composed in the order the code calls them.          *)
(***************************************************************************)
EXTENDS Naturals, Sequences, FiniteSets

\* Number of sockets the connector accepts in one session and _onAttach
\* wraps in a Connection.
MaxSockets == 2

\* Number of distinct strings given to a FileCache as file URLs and paths.
MaxNames == 3

\* Number of addCallback calls of a TextCallbackContainer not yet matched
\* by a removeCallback call.
MaxAdded == 2

\* Number of subscriptions made to a TextEventDispatcher.
MaxSubscriptions == 2

\* ---- constants imported from ./DbgpSocket (lines 30-39) ----
STATUS_STARTING == "starting"
STATUS_STOPPING == "stopping"
STATUS_STOPPED == "stopped"
STATUS_RUNNING == "running"
STATUS_BREAK == "break"
STATUS_ERROR == "error"
STATUS_END == "end"
COMMAND_RUN == "run"

\* Every status a Connection can report.
Status ==
  {STATUS_STARTING, STATUS_STOPPING, STATUS_STOPPED, STATUS_RUNNING,
   STATUS_BREAK, STATUS_ERROR, STATUS_END}

\* null, for the Connection-valued fields.  Connections are numbered from 1
\* in the order they were constructed.
NoConnection == 0

VARIABLES
  endDebugWhenNoRequests, \* this._config.endDebugWhenNoRequests
  status,                 \* this._status
  enabledConnection,      \* this._enabledConnection
  dummyConnection,        \* this._dummyConnection
  connections,            \* this._connections, in insertion order
  connector,              \* this._connector # null
  dummyRequestProcess,    \* this._dummyRequestProcess
  connectorState,         \* the DbgpConnector object itself
  sockets,                \* number of Connections constructed so far
  registered,             \* connections given to BreakpointStore.addConnection
  unsubscribed,           \* connections whose onStatusDisposable was disposed
  disposed,               \* connections whose dispose() was called
  pendingStatus,          \* connections whose initial getStatus() is awaited
  pendingDummy,           \* dummy connections whose run command is awaited
  lastEmitted,            \* status of the last event given to subscribers
  \* FileCache (FileCache.js)
  uriToPath,              \* uriToPath of ./helpers, as a function on strings
  files,                  \* this._files: filepath -> File
  created,                \* number of File objects constructed so far
  sent,                   \* messages given to this._callback.sendMethod
  \* TextCallbackContainer and TextEventDispatcher
  callbacks,              \* this._callbacks: grammar -> event -> callbacks
  allGrammarCallbacks,    \* this._allGrammarCallbacks: event -> callbacks
  added,                  \* arguments of the addCallback calls not yet matched
  editorListenerDisposable, \* this._editorListenerDisposable
  subscriptions           \* the Disposables _onEvents returned, in order

\* The fields of the ConnectionMultiplexer and what it acts on.
muxVars ==
  <<endDebugWhenNoRequests, status, enabledConnection, dummyConnection,
    connections, connector, dummyRequestProcess, connectorState, sockets,
    registered, unsubscribed, disposed, pendingStatus, pendingDummy, lastEmitted>>

\* The fields of a FileCache and what it acts on.
cacheVars == <<uriToPath, files, created, sent>>

\* The fields of a TextCallbackContainer, those of the TextEventDispatcher
\* that owns one, and what they act on.
textVars ==
  <<callbacks, allGrammarCallbacks, added, editorListenerDisposable,
    subscriptions>>

vars == <<muxVars, cacheVars, textVars>>

\* The strings a FileCache is given; a File is numbered by its construction.
FileNames == 1..MaxNames

\* A Map without entries.
EmptyMap == [k \in {} |-> 0]

\* this._editorListenerDisposable = null
NoDisposable == 0

\* No TextCallbackContainer and no TextEventDispatcher is in use.
TextIdle ==
  /\ callbacks = EmptyMap
  /\ allGrammarCallbacks = EmptyMap
  /\ added = <<>>
  /\ editorListenerDisposable = NoDisposable
  /\ subscriptions = <<>>

\* No FileCache is in use.
CacheIdle ==
  /\ uriToPath = [u \in FileNames |-> u]
  /\ files = EmptyMap
  /\ created = 0
  /\ sent = <<>>

\* What a callback does is recorded, in the order it is done, in the log of
\* the record the methods transform.  One entry: what was done, to which
\* connection, with which status (or command).  An "emit" entry carries the
\* enabled connection the subscriber observes at that instant.
Entry(ev, conn, st) == [ev |-> ev, conn |-> conn, status |-> st]

\* ---- the Map<Connection, ConnectionInfo> ----
ConnectionInfo(connection, st) == [connection |-> connection, status |-> st]

Keys(conns) == {conns[i].connection : i \in 1..Len(conns)}

Has(conns, c) == c \in Keys(conns)

\* this._connections.get(connection).status
InfoStatus(conns, c) ==
  conns[CHOOSE i \in 1..Len(conns) : conns[i].connection = c].status

\* The keys of the map, in iteration order.
KeySeq(conns) == [i \in 1..Len(conns) |-> conns[i].connection]

\* Mutant of the assignment: the status is stored for every connection.
SetInfoStatusOfAll(conns, c, st) ==
  [i \in 1..Len(conns) |-> [conns[i] EXCEPT !.status = st]]

\* this._connections.get(connection).status = status
SetInfoStatus(conns, c, st) ==
  [i \in 1..Len(conns) |->
     IF conns[i].connection = c THEN [conns[i] EXCEPT !.status = st] ELSE conns[i]]

\* this._connections.delete(connection)
Delete(conns, c) ==
  SelectSeq(conns, LAMBDA info : info.connection # c)

\* ---- the multiplexer's fields, as the record the methods transform ----
Self ==
  [status |-> status,
   enabledConnection |-> enabledConnection,
   dummyConnection |-> dummyConnection,
   connections |-> connections,
   connector |-> connector,
   dummyRequestProcess |-> dummyRequestProcess,
   connectorState |-> connectorState,
   sockets |-> sockets,
   registered |-> registered,
   unsubscribed |-> unsubscribed,
   disposed |-> disposed,
   pendingStatus |-> pendingStatus,
   pendingDummy |-> pendingDummy,
   threw |-> FALSE,
   log |-> <<>>]

Do(m, ev, conn, st) == [m EXCEPT !.log = Append(@, Entry(ev, conn, st))]

\* The status field of an entry that has none.
None == "-"

emitStatus(m, st) == Do(m, "emit", m.enabledConnection, st)

\* Mutant of _setStatus: the event is emitted whether or not the status
\* changes.
setStatusAlwaysEmits(m, st) == emitStatus([m EXCEPT !.status = st], st)

setStatus(m, st) ==
  IF st # m.status THEN emitStatus([m EXCEPT !.status = st], st) ELSE m

\* Mutants of _disableConnection: one leaves the enabled slot as it is, one
\* sets the status before it clears the slot.
disableConnectionKeepsSlot(m) ==
  setStatus(Do(m, "disable", m.enabledConnection, None), STATUS_RUNNING)

disableConnectionEmitsFirst(m) ==
  LET m1 == setStatus(Do(m, "disable", m.enabledConnection, None), STATUS_RUNNING)
  IN [m1 EXCEPT !.enabledConnection = NoConnection]

disableConnection(m) ==
  setStatus(
    Do([m EXCEPT !.enabledConnection = NoConnection],
       "disable", m.enabledConnection, None),
    STATUS_RUNNING)

\* Mutant of _enableConnection: the status is not set to BREAK.
enableConnectionNoStatus(m, connection) ==
  Do([m EXCEPT !.enabledConnection = connection], "enable", connection, None)

enableConnection(m, connection) ==
  setStatus(
    Do([m EXCEPT !.enabledConnection = connection], "enable", connection, None),
    STATUS_BREAK)

\* Mutant of _checkForEnd: endDebugWhenNoRequests is not consulted.
checkForEndConnectorOnly(m) ==
  LET m1 == Do(m, "checkForEnd", NoConnection, None)
  IN IF Len(m1.connections) = 0 /\ ~m1.connector
       THEN setStatus(m1, STATUS_END)
       ELSE m1

checkForEnd(m) ==
  LET m1 == Do(m, "checkForEnd", NoConnection, None)
  IN IF Len(m1.connections) = 0 /\ (~m1.connector \/ endDebugWhenNoRequests)
       THEN setStatus(m1, STATUS_END)
       ELSE m1

\* Mutant of _removeConnection: the connection is disabled before its
\* subscription and the connection are disposed and its entry deleted.
removeConnectionDisablesFirst(m, connection) ==
  LET m0 == IF connection = m.enabledConnection THEN disableConnection(m) ELSE m
      m1 == Do([m0 EXCEPT !.unsubscribed = @ \cup {connection}],
               "unsubscribe", connection, None)
      m2 == Do([m1 EXCEPT !.disposed = @ \cup {connection}],
               "disposeConnection", connection, None)
      m3 == Do([m2 EXCEPT !.connections = Delete(@, connection)],
               "delete", connection, None)
  IN checkForEnd(m3)

\* Mutant of _removeConnection: the status subscription of the removed
\* connection is left in place.
removeConnectionKeepsSubscription(m, connection) ==
  LET m2 == Do([m EXCEPT !.disposed = @ \cup {connection}],
               "disposeConnection", connection, None)
      m3 == Do([m2 EXCEPT !.connections = Delete(@, connection)],
               "delete", connection, None)
      m4 == IF connection = m3.enabledConnection THEN disableConnection(m3) ELSE m3
  IN checkForEnd(m4)

\* Mutant of _removeConnection: the END check is left out.
removeConnectionNoCheck(m, connection) ==
  LET m1 == Do([m EXCEPT !.unsubscribed = @ \cup {connection}],
               "unsubscribe", connection, None)
      m2 == Do([m1 EXCEPT !.disposed = @ \cup {connection}],
               "disposeConnection", connection, None)
      m3 == Do([m2 EXCEPT !.connections = Delete(@, connection)],
               "delete", connection, None)
  IN IF connection = m3.enabledConnection THEN disableConnection(m3) ELSE m3

\* Mutant of _removeConnection: the removed connection is not disabled.
removeConnectionKeepsEnabled(m, connection) ==
  LET m1 == Do([m EXCEPT !.unsubscribed = @ \cup {connection}],
               "unsubscribe", connection, None)
      m2 == Do([m1 EXCEPT !.disposed = @ \cup {connection}],
               "disposeConnection", connection, None)
      m3 == Do([m2 EXCEPT !.connections = Delete(@, connection)],
               "delete", connection, None)
  IN checkForEnd(m3)

\* Mutant of _removeConnection: the END check runs before the connection
\* is disabled.
removeConnectionChecksFirst(m, connection) ==
  LET m1 == Do([m EXCEPT !.unsubscribed = @ \cup {connection}],
               "unsubscribe", connection, None)
      m2 == Do([m1 EXCEPT !.disposed = @ \cup {connection}],
               "disposeConnection", connection, None)
      m3 == Do([m2 EXCEPT !.connections = Delete(@, connection)],
               "delete", connection, None)
      m4 == checkForEnd(m3)
  IN IF connection = m4.enabledConnection THEN disableConnection(m4) ELSE m4

removeConnection(m, connection) ==
  LET m1 == Do([m EXCEPT !.unsubscribed = @ \cup {connection}],
               "unsubscribe", connection, None)
      m2 == Do([m1 EXCEPT !.disposed = @ \cup {connection}],
               "disposeConnection", connection, None)
      m3 == Do([m2 EXCEPT !.connections = Delete(@, connection)],
               "delete", connection, None)
      m4 == IF connection = m3.enabledConnection THEN disableConnection(m3) ELSE m3
  IN checkForEnd(m4)

\* The connections whose cached status is BREAK, by position in the map.
Broken(conns) == {i \in 1..Len(conns) : conns[i].status = STATUS_BREAK}

FirstBroken(conns) ==
  conns[CHOOSE i \in Broken(conns) : \A j \in Broken(conns) : i <= j].connection

\* Mutant of _updateStatus: BREAK is not tested.
updateStatusWhileBreak(m) ==
  IF m.status = STATUS_END THEN m
  ELSE IF Broken(m.connections) # {}
    THEN enableConnection(m, FirstBroken(m.connections))
    ELSE m

\* Mutant of _updateStatus: END is not tested.
updateStatusAfterEnd(m) ==
  IF m.status = STATUS_BREAK THEN m
  ELSE IF Broken(m.connections) # {}
    THEN enableConnection(m, FirstBroken(m.connections))
    ELSE m

updateStatus(m) ==
  IF m.status = STATUS_END THEN m
  ELSE IF m.status = STATUS_BREAK THEN m
  ELSE IF Broken(m.connections) # {}
    THEN enableConnection(m, FirstBroken(m.connections))
    ELSE m

\* Mutant of _connectionOnStatus: a BREAK of the enabled connection goes
\* through _setStatus, which emits on a change only.
connectionOnStatusNoReemit(m0, connection, st) ==
  LET m == Do(m0, "connectionOnStatus", connection, st)
  IN
  IF ~Has(m.connections, connection)
    THEN Do([m EXCEPT !.threw = TRUE], "TypeError", connection, None)
  ELSE
    LET m1 == [m EXCEPT !.connections = SetInfoStatus(@, connection, st)]
    IN CASE st \in {STATUS_STARTING, STATUS_STOPPING} ->
              Do(m1, "sendContinuationCommand", connection, COMMAND_RUN)
         [] st = STATUS_RUNNING ->
              updateStatus(IF connection = m1.enabledConnection
                             THEN disableConnection(m1) ELSE m1)
         [] st = STATUS_BREAK ->
              IF connection = m1.enabledConnection
                THEN setStatus(m1, STATUS_BREAK)
                ELSE updateStatus(m1)
         [] OTHER ->
              updateStatus(removeConnection(m1, connection))

\* Mutant of _connectionOnStatus: STOPPING is handled as a terminal status.
connectionOnStatusStoppingRemoves(m0, connection, st) ==
  LET m == Do(m0, "connectionOnStatus", connection, st)
  IN
  IF ~Has(m.connections, connection)
    THEN Do([m EXCEPT !.threw = TRUE], "TypeError", connection, None)
  ELSE
    LET m1 == [m EXCEPT !.connections = SetInfoStatus(@, connection, st)]
    IN CASE st = STATUS_STARTING ->
              Do(m1, "sendContinuationCommand", connection, COMMAND_RUN)
         [] st = STATUS_RUNNING ->
              updateStatus(IF connection = m1.enabledConnection
                             THEN disableConnection(m1) ELSE m1)
         [] st = STATUS_BREAK ->
              IF connection = m1.enabledConnection
                THEN emitStatus(m1, STATUS_BREAK)
                ELSE updateStatus(m1)
         [] OTHER ->
              updateStatus(removeConnection(m1, connection))

\* Mutant of _connectionOnStatus: after a RUNNING of the enabled connection
\* the statuses are not re-evaluated.
connectionOnStatusNoReevaluate(m0, connection, st) ==
  LET m == Do(m0, "connectionOnStatus", connection, st)
  IN
  IF ~Has(m.connections, connection)
    THEN Do([m EXCEPT !.threw = TRUE], "TypeError", connection, None)
  ELSE
    LET m1 == [m EXCEPT !.connections = SetInfoStatus(@, connection, st)]
    IN CASE st \in {STATUS_STARTING, STATUS_STOPPING} ->
              Do(m1, "sendContinuationCommand", connection, COMMAND_RUN)
         [] st = STATUS_RUNNING ->
              IF connection = m1.enabledConnection
                THEN disableConnection(m1) ELSE updateStatus(m1)
         [] st = STATUS_BREAK ->
              IF connection = m1.enabledConnection
                THEN emitStatus(m1, STATUS_BREAK)
                ELSE updateStatus(m1)
         [] OTHER ->
              updateStatus(removeConnection(m1, connection))

connectionOnStatus(m0, connection, st) ==
  LET m == Do(m0, "connectionOnStatus", connection, st)
  IN
  IF ~Has(m.connections, connection)
    THEN \* this._connections.get(connection) is undefined: TypeError
         Do([m EXCEPT !.threw = TRUE], "TypeError", connection, None)
  ELSE
    LET m1 == [m EXCEPT !.connections = SetInfoStatus(@, connection, st)]
    IN CASE st \in {STATUS_STARTING, STATUS_STOPPING} ->
              Do(m1, "sendContinuationCommand", connection, COMMAND_RUN)
         [] st = STATUS_RUNNING ->
              updateStatus(IF connection = m1.enabledConnection
                             THEN disableConnection(m1) ELSE m1)
         [] st = STATUS_BREAK ->
              IF connection = m1.enabledConnection
                THEN emitStatus(m1, STATUS_BREAK)
                ELSE updateStatus(m1)
         [] OTHER ->
              updateStatus(removeConnection(m1, connection))

\* Mutant of _disposeConnector: the connector is disposed whether or not
\* the field still holds it.
disposeConnectorAgain(m) ==
  checkForEnd(
    Do([m EXCEPT !.connector = FALSE,
                 !.connectorState = IF @ = "listening" THEN "disposed" ELSE @],
       "disposeConnector", NoConnection, None))

\* Mutant of _disposeConnector: the END check is not run.
disposeConnectorNoCheck(m) ==
  IF m.connector
    THEN Do([m EXCEPT !.connector = FALSE,
                      !.connectorState =
                         IF @ = "listening" THEN "disposed" ELSE @],
            "disposeConnector", NoConnection, None)
    ELSE m

disposeConnector(m) ==
  LET m1 == IF m.connector
              THEN Do([m EXCEPT !.connector = FALSE,
                                !.connectorState =
                                   IF @ = "listening" THEN "disposed" ELSE @],
                      "disposeConnector", NoConnection, None)
              ELSE m
  IN checkForEnd(m1)

\* Mutant of the loop of dispose(): only the first tracked connection is
\* removed.
removeHeadOnly(m) ==
  IF Len(m.connections) = 0 THEN m
  ELSE removeConnection(m, Head(m.connections).connection)

RECURSIVE removeAll(_)
removeAll(m) ==
  IF Len(m.connections) = 0 THEN m
  ELSE removeAll(removeConnection(m, Head(m.connections).connection))

\* The statuses a callback emitted, in order.
Emitted(l) ==
  LET emits == SelectSeq(l, LAMBDA e : e.ev = "emit")
  IN [i \in 1..Len(emits) |-> emits[i].status]

LastEmitted(l, before) ==
  IF Emitted(l) = <<>> THEN before ELSE Emitted(l)[Len(Emitted(l))]

\* The fields of the record, written back when the callback returns.
Store(m) ==
  /\ status' = m.status
  /\ enabledConnection' = m.enabledConnection
  /\ dummyConnection' = m.dummyConnection
  /\ connections' = m.connections
  /\ connector' = m.connector
  /\ dummyRequestProcess' = m.dummyRequestProcess
  /\ connectorState' = m.connectorState
  /\ sockets' = m.sockets
  /\ registered' = m.registered
  /\ unsubscribed' = m.unsubscribed
  /\ disposed' = m.disposed
  /\ pendingStatus' = m.pendingStatus
  /\ pendingDummy' = m.pendingDummy
  /\ lastEmitted' = LastEmitted(m.log, lastEmitted)
  /\ UNCHANGED endDebugWhenNoRequests
  /\ UNCHANGED cacheVars
  /\ UNCHANGED textVars

\* The fields of a ConnectionMultiplexer after its constructor.
Constructed ==
  /\ endDebugWhenNoRequests \in BOOLEAN
  /\ status = STATUS_STARTING
  /\ enabledConnection = NoConnection
  /\ dummyConnection = NoConnection
  /\ connections = <<>>
  /\ connector = FALSE
  /\ dummyRequestProcess = "null"
  /\ connectorState = "none"
  /\ sockets = 0
  /\ registered = {}
  /\ unsubscribed = {}
  /\ disposed = {}
  /\ pendingStatus = {}
  /\ pendingDummy = {}
  /\ lastEmitted = None

Init == Constructed /\ CacheIdle /\ TextIdle

\* No ConnectionMultiplexer is in use.
MuxIdle == Constructed /\ ~endDebugWhenNoRequests

\* ---- the callbacks ----

\* sendDummyRequest() of ./ConnectionUtils, which spawns the warm-up
\* request and returns its ChildProcess; when the process cannot be
\* spawned the failure is logged and shown as a console message, and the
\* caller goes on.
sendDummyRequest(m, spawnFails) ==
  LET m1 == Do(m, "sendDummyRequest", NoConnection, None)
  IN IF spawnFails
       THEN Do(m1, "sendUserMessage", NoConnection,
               "console error: Failed to start the warm-up request")
       ELSE m1

\* Mutant of listen(): a warm-up request that cannot be spawned ends the
\* session.
listenAbortsOnFailure(m, spawnFails) ==
  LET m0 == Do(Do(Do(m, "connector.onAttach", NoConnection, None),
                  "connector.onClose", NoConnection, None),
               "connector.onError", NoConnection, None)
      m1 == [m0 EXCEPT !.connector = TRUE, !.status = STATUS_RUNNING]
      m2 == Do([m1 EXCEPT !.connectorState = "listening"],
               "connector.listen", NoConnection, None)
      m3 == Do(m2, "sendUserMessage", NoConnection, "Pre-loading, please wait...")
      m4 == [sendDummyRequest(m3, spawnFails) EXCEPT !.dummyRequestProcess = "spawned"]
  IN IF spawnFails THEN disposeConnector(m4) ELSE m4

\* listen(), the warm-up request being spawned or not
listen(m, spawnFails) ==
  LET m0 == Do(Do(Do(m, "connector.onAttach", NoConnection, None),
                  "connector.onClose", NoConnection, None),
               "connector.onError", NoConnection, None)
      m1 == [m0 EXCEPT !.connector = TRUE, !.status = STATUS_RUNNING]
      m2 == Do([m1 EXCEPT !.connectorState = "listening"],
               "connector.listen", NoConnection, None)
      m3 == Do(m2, "sendUserMessage", NoConnection, "Pre-loading, please wait...")
  IN [sendDummyRequest(m3, spawnFails) EXCEPT !.dummyRequestProcess = "spawned"]

\* _handleAttachError(error): the connector's error callback
handleAttachError(m) ==
  Do(m, "sendUserMessage", NoConnection, "notification error")

\* _handleDummyConnection up to its await
handleDummyConnection(m) ==
  LET connection == m.sockets + 1
  IN Do([m EXCEPT !.sockets = connection,
                  !.pendingDummy = @ \cup {connection}],
        "sendContinuationCommand", connection, COMMAND_RUN)

\* _handleDummyConnection after its await
handleDummyConnectionDone(m, connection) ==
  Do([m EXCEPT !.pendingDummy = @ \ {connection},
               !.dummyConnection = connection],
     "sendUserMessage", connection, "Pre-loading is done.")

\* Mutant of _onAttach: the handshake message is not validated.
onAttachNoValidation(m, correct, dummy) ==
  IF dummy THEN handleDummyConnection(m)
  ELSE
    LET connection == m.sockets + 1
        m1 == Do([m EXCEPT !.sockets = connection,
                           !.registered = @ \cup {connection}],
                 "addConnection", connection, None)
        m2 == Do(m1, "onStatus", connection, None)
        m3 == Do([m2 EXCEPT !.connections =
                    Append(@, ConnectionInfo(connection, STATUS_STARTING))],
                 "set", connection, STATUS_STARTING)
    IN Do([m3 EXCEPT !.pendingStatus = @ \cup {connection}],
          "getStatus", connection, None)

\* Mutant of _onAttach: the initial status is queried before the
\* connection is registered, subscribed to and inserted.
onAttachQueriesFirst(m, correct, dummy) ==
  IF ~correct THEN Do(m, "failConnection", NoConnection, None)
  ELSE IF dummy THEN handleDummyConnection(m)
  ELSE
    LET connection == m.sockets + 1
        m1 == Do([m EXCEPT !.sockets = connection,
                           !.pendingStatus = @ \cup {connection}],
                 "getStatus", connection, None)
        m2 == Do([m1 EXCEPT !.registered = @ \cup {connection}],
                 "addConnection", connection, None)
        m3 == Do(m2, "onStatus", connection, None)
    IN Do([m3 EXCEPT !.connections =
             Append(@, ConnectionInfo(connection, STATUS_STARTING))],
          "set", connection, STATUS_STARTING)

\* _onAttach up to its await, for a handshake message that isCorrectConnection
\* accepts or not (correct) and isDummyConnection accepts or not (dummy)
onAttach(m, correct, dummy) ==
  IF ~correct THEN Do(m, "failConnection", NoConnection, None)
  ELSE IF dummy THEN handleDummyConnection(m)
  ELSE
    LET connection == m.sockets + 1
        m1 == Do([m EXCEPT !.sockets = connection,
                           !.registered = @ \cup {connection}],
                 "addConnection", connection, None)
        m2 == Do(m1, "onStatus", connection, None)
        m3 == Do([m2 EXCEPT !.connections =
                    Append(@, ConnectionInfo(connection, STATUS_STARTING))],
                 "set", connection, STATUS_STARTING)
    IN Do([m3 EXCEPT !.pendingStatus = @ \cup {connection}],
          "getStatus", connection, None)

\* _onAttach after its await: connection.getStatus() resolved with st, or
\* rejected (ok = FALSE), which the catch turns into STATUS_ERROR
onAttachStatus(m, connection, ok, st) ==
  LET m1 == [m EXCEPT !.pendingStatus = @ \ {connection}]
  IN IF ok THEN connectionOnStatus(m1, connection, st)
     ELSE connectionOnStatus(Do(m1, "logError", connection, None),
                             connection, STATUS_ERROR)

\* the connector's close event: the callback given to connector.onClose
onClose(m) ==
  disposeConnector([m EXCEPT !.connectorState = "closed"])

\* dispose()
dispose(m) ==
  LET m1 == removeAll(m)
      m2 == IF m1.dummyRequestProcess # "null"
              THEN Do([m1 EXCEPT !.dummyRequestProcess = "killed"],
                      "kill", NoConnection, "SIGKILL")
              ELSE m1
  IN disposeConnector(m2)

\* ---- the forwarding operations ----
\* A call forwarded to a Connection is logged under the name of the
\* Connection method, with the connection it is sent to.

\* Frame indices a caller passes; runtimeEvaluate passes the top frame.
TopFrame == "0"
Frames == {TopFrame, "1"}

\* throw this._noConnectionError()
noConnectionError(m) ==
  Do([m EXCEPT !.threw = TRUE], "throw", NoConnection, "No connection")

\* The result of an evaluation, as the entry of a log says it.
Result(wasThrown) == IF wasThrown THEN "wasThrown" ELSE "result"

\* _reportEvaluationFailureIfNeeded, for a result with wasThrown or not
reportEvaluationFailureIfNeeded(m, wasThrown) ==
  IF wasThrown
    THEN Do(m, "sendUserMessage", NoConnection, "console error: Failed to evaluate")
    ELSE m

\* Mutant of runtimeEvaluate: without a dummy connection the enabled one
\* is asked.
runtimeEvaluateFallsBack(m, wasThrown) ==
  IF m.dummyConnection # NoConnection
    THEN Do(reportEvaluationFailureIfNeeded(
              Do(m, "evaluateOnCallFrame", m.dummyConnection, TopFrame),
              wasThrown),
            "return", m.dummyConnection, Result(wasThrown))
  ELSE IF m.enabledConnection # NoConnection
    THEN Do(reportEvaluationFailureIfNeeded(
              Do(m, "evaluateOnCallFrame", m.enabledConnection, TopFrame),
              wasThrown),
            "return", m.enabledConnection, Result(wasThrown))
  ELSE noConnectionError(m)

\* runtimeEvaluate(expression), the dummy connection answering with a
\* result whose wasThrown is given
runtimeEvaluate(m, wasThrown) ==
  IF m.dummyConnection # NoConnection
    THEN Do(reportEvaluationFailureIfNeeded(
              Do(m, "evaluateOnCallFrame", m.dummyConnection, TopFrame),
              wasThrown),
            "return", m.dummyConnection, Result(wasThrown))
    ELSE noConnectionError(m)

\* Mutant of evaluateOnCallFrame: a thrown result is thrown to the caller
\* after it was reported.
evaluateOnCallFrameThrows(m, frameIndex, wasThrown) ==
  IF m.enabledConnection # NoConnection
    THEN LET m1 == reportEvaluationFailureIfNeeded(
                     Do(m, "evaluateOnCallFrame", m.enabledConnection, frameIndex),
                     wasThrown)
         IN IF wasThrown
              THEN Do([m1 EXCEPT !.threw = TRUE],
                      "throw", m.enabledConnection, Result(wasThrown))
              ELSE Do(m1, "return", m.enabledConnection, Result(wasThrown))
    ELSE noConnectionError(m)

\* evaluateOnCallFrame(frameIndex, expression), the enabled connection
\* answering with a result whose wasThrown is given
evaluateOnCallFrame(m, frameIndex, wasThrown) ==
  IF m.enabledConnection # NoConnection
    THEN Do(reportEvaluationFailureIfNeeded(
              Do(m, "evaluateOnCallFrame", m.enabledConnection, frameIndex),
              wasThrown),
            "return", m.enabledConnection, Result(wasThrown))
    ELSE noConnectionError(m)

\* Mutant of getStackFrames: without an enabled connection it throws.
getStackFramesThrows(m) ==
  IF m.enabledConnection # NoConnection
    THEN Do(m, "getStackFrames", m.enabledConnection, None)
    ELSE noConnectionError(m)

\* getStackFrames()
getStackFrames(m) ==
  IF m.enabledConnection # NoConnection
    THEN Do(m, "getStackFrames", m.enabledConnection, None)
    ELSE Do(m, "resolve", NoConnection, "{stack: []}")

\* getScopesForFrame(frameIndex)
getScopesForFrame(m, frameIndex) ==
  IF m.enabledConnection # NoConnection
    THEN Do(m, "getScopesForFrame", m.enabledConnection, frameIndex)
    ELSE noConnectionError(m)

\* sendContinuationCommand(command)
sendContinuationCommand(m, command) ==
  IF m.enabledConnection # NoConnection
    THEN Do(m, "sendContinuationCommand", m.enabledConnection, command)
    ELSE noConnectionError(m)

\* sendBreakCommand()
sendBreakCommand(m) ==
  IF m.enabledConnection # NoConnection
    THEN Do(m, "sendBreakCommand", m.enabledConnection, None)
    ELSE Do(m, "resolve", NoConnection, "false")

\* Mutant of getProperties: the dummy connection is preferred.
getPropertiesDummyFirst(m) ==
  IF m.dummyConnection # NoConnection
    THEN Do(m, "getProperties", m.dummyConnection, None)
  ELSE IF m.enabledConnection # NoConnection /\ m.status = STATUS_BREAK
    THEN Do(m, "getProperties", m.enabledConnection, None)
  ELSE noConnectionError(m)

\* getProperties(remoteId)
getProperties(m) ==
  IF m.enabledConnection # NoConnection /\ m.status = STATUS_BREAK
    THEN Do(m, "getProperties", m.enabledConnection, None)
  ELSE IF m.dummyConnection # NoConnection
    THEN Do(m, "getProperties", m.dummyConnection, None)
  ELSE noConnectionError(m)

\* getStatus()
getStatus(m) == m.status

\* What each forwarding operation, called on the fields m, can leave.
RuntimeEvaluateOutcomes(m) == {runtimeEvaluate(m, w) : w \in BOOLEAN}

EvaluateOnCallFrameOutcomes(m) ==
  {evaluateOnCallFrame(m, x[1], x[2]) : x \in Frames \X BOOLEAN}

GetStackFramesOutcomes(m) == {getStackFrames(m)}

GetScopesForFrameOutcomes(m) == {getScopesForFrame(m, f) : f \in Frames}

SendContinuationCommandOutcomes(m) == {sendContinuationCommand(m, COMMAND_RUN)}

SendBreakCommandOutcomes(m) == {sendBreakCommand(m)}

GetPropertiesOutcomes(m) == {getProperties(m)}

\* What any forwarding operation called on the fields m can leave.
ForwardingOutcomes(m) ==
  RuntimeEvaluateOutcomes(m) \cup EvaluateOnCallFrameOutcomes(m)
    \cup GetStackFramesOutcomes(m) \cup GetScopesForFrameOutcomes(m)
    \cup SendContinuationCommandOutcomes(m) \cup SendBreakCommandOutcomes(m)
    \cup GetPropertiesOutcomes(m)

\* ---- the actions: one per callback the event loop runs ----
\* For each, the records the callback can leave, over its inputs.

\* listen() is called once, after construction (class comment, lines 68-73).
ListenOutcomes ==
  IF status = STATUS_STARTING /\ ~connector
    THEN {listen(Self, spawnFails) : spawnFails \in BOOLEAN}
    ELSE {}

\* The connector accepts a socket and calls _onAttach.
AttachOutcomes ==
  IF connectorState = "listening"
    THEN {onAttach(Self, msg[1], msg[2]) :
            msg \in {x \in BOOLEAN \X BOOLEAN : x[1] => sockets < MaxSockets}}
    ELSE {}

\* The run command sent to a dummy connection completes.
DummyRunDoneOutcomes ==
  {handleDummyConnectionDone(Self, connection) : connection \in pendingDummy}

\* The initial status query of a connection completes.
AttachStatusOutcomes ==
  {onAttachStatus(Self, q[1], TRUE, q[2]) : q \in pendingStatus \X Status}
    \cup {onAttachStatus(Self, connection, FALSE, STATUS_ERROR) :
            connection \in pendingStatus}

\* A connection reports a status to the callback _onAttach subscribed
\* (lines 176-178); it does so until the subscription is disposed.
ConnectionStatusOutcomes ==
  {connectionOnStatus(Self, e[1], e[2]) :
     e \in (registered \ unsubscribed) \X Status}

\* The connector closes, by itself or after the multiplexer disposed it.
ConnectorCloseOutcomes ==
  IF connectorState \in {"listening", "disposed"} THEN {onClose(Self)} ELSE {}

\* The connector reports an error on its server socket.
ConnectorErrorOutcomes ==
  IF connectorState = "listening" THEN {handleAttachError(Self)} ELSE {}

DisposeOutcomes == {dispose(Self)}

Listen == \E m \in ListenOutcomes : Store(m)

Attach == \E m \in AttachOutcomes : Store(m)

DummyRunDone == \E m \in DummyRunDoneOutcomes : Store(m)

AttachStatus == \E m \in AttachStatusOutcomes : Store(m)

ConnectionStatus == \E m \in ConnectionStatusOutcomes : Store(m)

ConnectorClose == \E m \in ConnectorCloseOutcomes : Store(m)

ConnectorError == \E m \in ConnectorErrorOutcomes : Store(m)

Dispose == \E m \in DisposeOutcomes : Store(m)

\* The forwarding operations, called by the client at any time.
RuntimeEvaluate == \E m \in RuntimeEvaluateOutcomes(Self) : Store(m)

EvaluateOnCallFrame == \E m \in EvaluateOnCallFrameOutcomes(Self) : Store(m)

GetStackFrames == \E m \in GetStackFramesOutcomes(Self) : Store(m)

GetScopesForFrame == \E m \in GetScopesForFrameOutcomes(Self) : Store(m)

SendContinuationCommand ==
  \E m \in SendContinuationCommandOutcomes(Self) : Store(m)

SendBreakCommand == \E m \in SendBreakCommandOutcomes(Self) : Store(m)

GetProperties == \E m \in GetPropertiesOutcomes(Self) : Store(m)

Next ==
  \/ Listen
  \/ Attach
  \/ DummyRunDone
  \/ AttachStatus
  \/ ConnectionStatus
  \/ ConnectorClose
  \/ ConnectorError
  \/ Dispose
  \/ RuntimeEvaluate
  \/ EvaluateOnCallFrame
  \/ GetStackFrames
  \/ GetScopesForFrame
  \/ SendContinuationCommand
  \/ SendBreakCommand
  \/ GetProperties

Spec == Init /\ [][Next]_vars

\* What any callback that can run in the current state leaves.
Outcomes ==
  ListenOutcomes \cup AttachOutcomes \cup DummyRunDoneOutcomes
    \cup AttachStatusOutcomes \cup ConnectionStatusOutcomes
    \cup ConnectorCloseOutcomes \cup ConnectorErrorOutcomes
    \cup DisposeOutcomes
    \cup ForwardingOutcomes(Self)

\* ---- vocabulary of the properties ----

\* The statuses on which a connection is removed.
Terminal == {STATUS_STOPPED, STATUS_ERROR, STATUS_END}

\* The positions of the log l holding the entry e.
Positions(l, e) == {i \in 1..Len(l) : l[i] = e}

\* The positions of the log l holding an entry of kind ev.
PositionsOf(l, ev) == {i \in 1..Len(l) : l[i].ev = ev}

\* The condition _checkForEnd tests, in the fields m.
EndCondition(m) ==
  Len(m.connections) = 0 /\ (~m.connector \/ endDebugWhenNoRequests)

\* C1: at most one connection is enabled, it is a tracked one, and
\* whenever a connection is enabled the global status is BREAK.
C1_EnabledImpliesBreak ==
  /\ Cardinality({c \in Keys(connections) : c = enabledConnection}) <= 1
  /\ enabledConnection # NoConnection =>
       /\ status = STATUS_BREAK
       /\ enabledConnection \in Keys(connections)

\* C1 witness: two tracked connections are in BREAK and one is enabled.
C1_Witness ==
  /\ enabledConnection # NoConnection
  /\ status = STATUS_BREAK
  /\ Cardinality(Broken(connections)) >= 2

\* C2 (as claimed): whenever the global status is BREAK, a connection is
\* enabled and the status cached for it is BREAK.
C2_BreakImpliesEnabledCachedBreak ==
  status = STATUS_BREAK =>
    /\ enabledConnection \in Keys(connections)
    /\ InfoStatus(connections, enabledConnection) = STATUS_BREAK

\* C3: whenever the global status is RUNNING, no connection is enabled.
C3_RunningImpliesNoneEnabled ==
  status = STATUS_RUNNING => enabledConnection = NoConnection

\* C3 witness: RUNNING after an enabled connection was disabled, with
\* connections still tracked.
C3_Witness ==
  /\ status = STATUS_RUNNING
  /\ lastEmitted = STATUS_RUNNING
  /\ Len(connections) >= 1

\* C4 (as claimed): whenever the global status is END, the map of tracked
\* connections is empty and the connector has been disposed.
C4_EndImpliesEmptyAndConnectorGone ==
  status = STATUS_END => Len(connections) = 0 /\ ~connector

\* C5: END is terminal.  In a state whose global status is END, whatever
\* callback runs next leaves the status END and no connection enabled and
\* emits no status event; and no callback emits END twice.
C5_EndIsTerminal ==
  \A m \in Outcomes :
    /\ Cardinality(Positions(Emitted(m.log), STATUS_END)) <= 1
    /\ status = STATUS_END =>
         /\ m.status = STATUS_END
         /\ m.enabledConnection = NoConnection
         /\ Emitted(m.log) = <<>>

\* C5 witness: END was reached and a connection attached afterwards
\* reports BREAK.
C5_Witness ==
  /\ status = STATUS_END
  /\ Broken(connections) # {}

C7_RunningDisablesFirst ==
  enabledConnection \in Keys(connections) =>
    LET m == connectionOnStatus(Self, enabledConnection, STATUS_RUNNING)
        l == m.log
        running == Positions(l, Entry("emit", NoConnection, STATUS_RUNNING))
    IN /\ running # {}
       /\ m.enabledConnection # enabledConnection
       /\ m.enabledConnection = NoConnection => m.status = STATUS_RUNNING
       /\ \A i \in running :
            /\ \E d \in Positions(l, Entry("disable", enabledConnection, None)) :
                 d < i
            /\ \A j \in PositionsOf(l, "enable") : i < j

\* C7 witness: connection 1 is enabled, and its RUNNING hands the break
\* over to connection 2.
C7_Witness ==
  /\ enabledConnection = 1
  /\ 2 \in Keys(connections)
  /\ connectionOnStatus(Self, 1, STATUS_RUNNING).enabledConnection = 2

\* C8 (as claimed): when a tracked connection reports BREAK while no
\* connection is enabled, a connection is enabled and the global status
\* becomes BREAK: the reporting connection, unless an earlier attached one
\* is in BREAK too, and then the earliest attached of these.
C8_BreakEnablesEarliest ==
  enabledConnection = NoConnection =>
    \A c \in Keys(connections) :
      LET m == connectionOnStatus(Self, c, STATUS_BREAK)
      IN /\ m.status = STATUS_BREAK
         /\ m.enabledConnection = FirstBroken(m.connections)
         /\ Broken(connections) = {} => m.enabledConnection = c

\* C9: when the enabled connection reports BREAK again, exactly one BREAK
\* event is emitted, and the enabled connection, the global status and the
\* tracked connections are as before.
C9_BreakAgainReemits ==
  enabledConnection \in Keys(connections) =>
    LET m == connectionOnStatus(Self, enabledConnection, STATUS_BREAK)
    IN /\ Emitted(m.log) = <<STATUS_BREAK>>
       /\ m.enabledConnection = enabledConnection
       /\ m.status = status
       /\ KeySeq(m.connections) = KeySeq(connections)
       /\ \A c \in Keys(connections) \ {enabledConnection} :
            InfoStatus(m.connections, c) = InfoStatus(connections, c)
       /\ m.disposed = disposed /\ m.unsubscribed = unsubscribed

\* C9 witness: a connection is enabled, its cached status is BREAK, and
\* another connection is tracked.
C9_Witness ==
  /\ enabledConnection \in Keys(connections)
  /\ InfoStatus(connections, enabledConnection) = STATUS_BREAK
  /\ Len(connections) >= 2
  /\ Emitted(connectionOnStatus(Self, enabledConnection, STATUS_BREAK).log)
       = <<STATUS_BREAK>>

\* The log l removes the enabled connection c as C10 says: the slot is
\* cleared and RUNNING emitted before the END check that follows the
\* removal, and before any END.
RemovesEnabledInOrder(l, c) ==
  \E r \in Positions(l, Entry("emit", NoConnection, STATUS_RUNNING)) :
    /\ \E d \in Positions(l, Entry("disable", c, None)) : d < r
    /\ \A e \in Positions(l, Entry("emit", NoConnection, STATUS_END)) : r < e
    /\ \A k \in PositionsOf(l, "checkForEnd") :
         (\E x \in Positions(l, Entry("delete", c, None)) : x < k) => r < k

\* C10: removing the enabled connection, by a terminal status or by
\* dispose(), clears the enabled slot and emits RUNNING before the END
\* check of that removal runs, hence before any END.
C10_RemoveEnabledRunningBeforeEnd ==
  enabledConnection \in Keys(connections) =>
    /\ \A st \in Terminal :
         LET m == connectionOnStatus(Self, enabledConnection, st)
         IN /\ RemovesEnabledInOrder(m.log, enabledConnection)
            /\ m.enabledConnection # enabledConnection
            /\ ~Has(m.connections, enabledConnection)
    /\ LET m == dispose(Self)
       IN /\ RemovesEnabledInOrder(m.log, enabledConnection)
          /\ m.enabledConnection = NoConnection
          /\ Len(m.connections) = 0

\* C10 witness: the enabled connection is the only tracked one and the
\* connector is gone, so that its removal emits RUNNING and then END.
C10_Witness ==
  /\ enabledConnection \in Keys(connections)
  /\ Len(connections) = 1
  /\ ~connector
  /\ Emitted(connectionOnStatus(Self, enabledConnection, STATUS_STOPPED).log)
       = <<STATUS_RUNNING, STATUS_END>>

\* C11: the break hand-off.  (a) A connection whose initial status is
\* STARTING is sent the run command.  (b) With the session RUNNING and no
\* connection in BREAK, a tracked connection that reports BREAK becomes the
\* enabled one and the global status becomes BREAK.  (c) While a connection
\* is enabled, another one that reports BREAK stays disabled: the enabled
\* connection and the status stay, nothing is emitted.  (d) When the
\* enabled connection then reports RUNNING while another is in BREAK, one
\* callback disables it, emits RUNNING with no connection enabled, enables
\* the earliest connection in BREAK and emits BREAK.
C11_BreakHandOff ==
  /\ \A a \in pendingStatus :
       Has(connections, a) =>
         Positions(onAttachStatus(Self, a, TRUE, STATUS_STARTING).log,
                   Entry("sendContinuationCommand", a, COMMAND_RUN)) # {}
  /\ (status = STATUS_RUNNING /\ Broken(connections) = {}) =>
       \A a \in Keys(connections) :
         LET m == connectionOnStatus(Self, a, STATUS_BREAK)
         IN /\ m.enabledConnection = a
            /\ m.status = STATUS_BREAK
            /\ Emitted(m.log) = <<STATUS_BREAK>>
  /\ enabledConnection # NoConnection =>
       \A b \in Keys(connections) \ {enabledConnection} :
         LET m == connectionOnStatus(Self, b, STATUS_BREAK)
         IN /\ m.enabledConnection = enabledConnection
            /\ m.status = STATUS_BREAK
            /\ InfoStatus(m.connections, b) = STATUS_BREAK
            /\ Emitted(m.log) = <<>>
  /\ \A a \in Keys(connections) :
       LET m1 == SetInfoStatus(connections, a, STATUS_RUNNING)
       IN (a = enabledConnection /\ Broken(m1) # {}) =>
            LET m == connectionOnStatus(Self, a, STATUS_RUNNING)
                b == FirstBroken(m1)
            IN /\ m.enabledConnection = b
               /\ m.status = STATUS_BREAK
               /\ SelectSeq(m.log, LAMBDA e : e.ev \in {"disable", "enable", "emit"})
                    = <<Entry("disable", a, None),
                        Entry("emit", NoConnection, STATUS_RUNNING),
                        Entry("enable", b, None),
                        Entry("emit", b, STATUS_BREAK)>>

\* C11 witness: connection 1 attached first and is enabled, connection 2
\* reported BREAK while 1 was enabled, and the RUNNING of 1 hands over to 2
\* with the events RUNNING, BREAK.
C11_Witness ==
  /\ enabledConnection = 1
  /\ Has(connections, 2)
  /\ InfoStatus(connections, 2) = STATUS_BREAK
  /\ status = STATUS_BREAK
  /\ Emitted(connectionOnStatus(Self, 1, STATUS_RUNNING).log)
       = <<STATUS_RUNNING, STATUS_BREAK>>

\* C12 (as claimed): when the connector closes while no connection is
\* tracked, the close callback leaves the global status END, whatever
\* endDebugWhenNoRequests is.  When it closes while connections are
\* tracked, the global status and the enabled connection stay as they were
\* until the last tracked connection is removed: the close callback, and
\* every later callback that leaves a connection tracked, leaves both
\* unchanged, and the callback that empties the map leaves the status END.
C12_UnchangedUntilLastRemoved ==
  /\ \A m \in ConnectorCloseOutcomes :
       IF Len(connections) = 0
         THEN m.status = STATUS_END
         ELSE m.status = status /\ m.enabledConnection = enabledConnection
  /\ (~connector /\ Len(connections) > 0) =>
       \A m \in Outcomes :
         IF Len(m.connections) = 0
           THEN m.status = STATUS_END
           ELSE m.status = status /\ m.enabledConnection = enabledConnection

\* C12 (amended): when the connector closes while no connection is
\* tracked, the close callback leaves the global status END, whatever
\* endDebugWhenNoRequests is.  When it closes while connections are
\* tracked, the close callback leaves the status, the enabled connection
\* and the map as they were and emits nothing.  From then on a callback
\* that empties the map leaves the status END, and one that leaves a
\* connection tracked leaves the status END only if it was END before.
C12_ConnectorCloseEnds ==
  /\ \A m \in ConnectorCloseOutcomes :
       IF Len(connections) = 0
         THEN m.status = STATUS_END
         ELSE /\ m.status = status
              /\ m.enabledConnection = enabledConnection
              /\ m.connections = connections
              /\ Emitted(m.log) = <<>>
              /\ ~m.connector
  /\ (~connector /\ Len(connections) > 0) =>
       \A m \in Outcomes :
         /\ ~m.connector
         /\ IF Len(m.connections) = 0
              THEN m.status = STATUS_END
              ELSE m.status = STATUS_END <=> status = STATUS_END

\* C12 witness: the connector closed while a connection was tracked, the
\* status is still BREAK with that connection enabled, and its removal
\* ends the session.
C12_Witness ==
  /\ connectorState = "closed"
  /\ Len(connections) = 1
  /\ status = STATUS_BREAK
  /\ enabledConnection = connections[1].connection
  /\ connectionOnStatus(Self, enabledConnection, STATUS_STOPPED).status
       = STATUS_END

\* The statuses given to the subscribers up to the end of the callback
\* that leaves m: the last one emitted before it, then those it emits.
EmittedThrough(m) ==
  (IF lastEmitted = None THEN <<>> ELSE <<lastEmitted>>) \o Emitted(m.log)

\* The callback that leaves m is the status callback of the enabled
\* connection reporting BREAK again.
IsBreakAgain(m) ==
  /\ enabledConnection # NoConnection
  /\ Positions(m.log,
               Entry("connectionOnStatus", enabledConnection, STATUS_BREAK)) # {}

\* C13 (as claimed): no two consecutive status events given to the
\* subscribers carry the same status.
C13_NoDuplicateEmission ==
  \A m \in Outcomes :
    \A i \in 1..(Len(EmittedThrough(m)) - 1) :
      EmittedThrough(m)[i] # EmittedThrough(m)[i + 1]

\* C13 (amended): the only status event that carries the status of the
\* event before it is the BREAK emitted when the enabled connection
\* reports BREAK again; every other event carries a status that differs
\* from the one before, and at the end of a callback that emitted, the
\* global status is the last status emitted.
C13_DuplicateOnlyBreakAgain ==
  \A m \in Outcomes :
    /\ \A i \in 1..(Len(EmittedThrough(m)) - 1) :
         EmittedThrough(m)[i] = EmittedThrough(m)[i + 1] =>
           /\ IsBreakAgain(m)
           /\ Emitted(m.log) = <<STATUS_BREAK>>
    /\ Emitted(m.log) # <<>> => m.status = LastEmitted(m.log, lastEmitted)

\* C13 witness: the last event given to the subscribers was BREAK, and the
\* enabled connection reporting BREAK again emits BREAK once more.
C13_Witness ==
  /\ lastEmitted = STATUS_BREAK
  /\ enabledConnection \in Keys(connections)
  /\ EmittedThrough(connectionOnStatus(Self, enabledConnection, STATUS_BREAK))
       = <<STATUS_BREAK, STATUS_BREAK>>

\* The fields a callback left in m, as the next call finds them.
After(m) == [m EXCEPT !.log = <<>>, !.threw = FALSE]

\* The Connection methods the forwarding operations call.
ForwardedMethods ==
  {"evaluateOnCallFrame", "getStackFrames", "getScopesForFrame",
   "getProperties", "sendContinuationCommand", "sendBreakCommand"}

\* The connections the log l forwards a call to.
ForwardedTo(l) == {l[i].conn : i \in {j \in 1..Len(l) : l[j].ev \in ForwardedMethods}}

\* The call that leaves m failed with the "no connection" error.
FailsNoConnection(m) ==
  m.threw /\ m.log = <<Entry("throw", NoConnection, "No connection")>>

\* The call that leaves m resolved to its default, the value given.
ResolvesDefault(m, value) ==
  ~m.threw /\ m.log = <<Entry("resolve", NoConnection, value)>>

\* C14 (as claimed): after dispose(), whatever the state it was called in,
\* every forwarding call fails with the "no connection" error or resolves
\* to its default (empty stack, false) and is forwarded to no connection.
C14_NoForwardAfterDispose ==
  \A m \in ForwardingOutcomes(After(dispose(Self))) :
    /\ ForwardedTo(m.log) = {}
    /\ \/ FailsNoConnection(m)
       \/ ResolvesDefault(m, "{stack: []}")
       \/ ResolvesDefault(m, "false")

\* C15: dispose(), called in any reachable state, leaves the map empty, no
\* connection enabled, every connection that was tracked disposed and its
\* status subscription disposed, the warm-up process (if one was spawned)
\* sent a kill, the connector (if one was there) disposed and the field
\* cleared, and the global status END.
C15_DisposeTearsDown ==
  LET m == dispose(Self)
  IN /\ Len(m.connections) = 0
     /\ m.enabledConnection = NoConnection
     /\ Keys(connections) \subseteq m.disposed
     /\ Keys(connections) \subseteq m.unsubscribed
     /\ \A c \in Keys(connections) :
          /\ Positions(m.log, Entry("unsubscribe", c, None)) # {}
          /\ Positions(m.log, Entry("disposeConnection", c, None)) # {}
     /\ dummyRequestProcess # "null" =>
          /\ m.dummyRequestProcess = "killed"
          /\ PositionsOf(m.log, "kill") # {}
     /\ ~m.connector
     /\ connector =>
          /\ PositionsOf(m.log, "disposeConnector") # {}
          /\ m.connectorState = "disposed"
     /\ m.status = STATUS_END
     /\ ~m.threw

\* C15 witness: dispose() is called with two connections tracked, one of
\* them enabled, the warm-up process spawned and the connector listening.
C15_Witness ==
  /\ Len(connections) = 2
  /\ enabledConnection \in Keys(connections)
  /\ dummyRequestProcess = "spawned"
  /\ connector
  /\ Emitted(dispose(Self).log) = <<STATUS_RUNNING, STATUS_END>>

\* The call that leaves b, made on the fields a, left the global status,
\* the enabled slot, the map and the connector field as they were, emitted
\* no status event and disposed neither the connector nor a connection.
LeavesTornDown(a, b) ==
  /\ b.status = a.status
  /\ b.enabledConnection = a.enabledConnection
  /\ b.connections = a.connections
  /\ b.connector = a.connector
  /\ b.disposed = a.disposed
  /\ b.unsubscribed = a.unsubscribed
  /\ Emitted(b.log) = <<>>
  /\ PositionsOf(b.log, "disposeConnector") = {}
  /\ PositionsOf(b.log, "disposeConnection") = {}
  /\ PositionsOf(b.log, "unsubscribe") = {}
  /\ ~b.threw

\* The fields m are those of a multiplexer that was torn down.
TornDown(m) ==
  m.status = STATUS_END /\ Len(m.connections) = 0 /\ ~m.connector

\* C16: dispose() is idempotent.  A second dispose(), or the connector's
\* close event arriving after dispose(), leaves the global status, the
\* enabled slot, the map and the connector field unchanged, emits no
\* status event and disposes neither the connector nor a connection again:
\* right after a dispose() called in any reachable state, and in any later
\* state, since no callback takes the multiplexer out of the torn-down
\* state dispose() leaves.
C16_DisposeIdempotent ==
  /\ LET m1 == After(dispose(Self))
     IN /\ TornDown(m1)
        /\ LeavesTornDown(m1, dispose(m1))
        /\ m1.connectorState = "disposed" => LeavesTornDown(m1, onClose(m1))
  /\ TornDown(Self) =>
       /\ \A m \in Outcomes : TornDown(m)
       /\ \A m \in DisposeOutcomes \cup ConnectorCloseOutcomes :
            LeavesTornDown(Self, m)

\* C16 witness: dispose() was called with connections tracked and the
\* connector listening; the connector's close event has not arrived yet.
C16_Witness ==
  /\ dummyRequestProcess = "killed"
  /\ connectorState = "disposed"
  /\ Cardinality(disposed) >= 2
  /\ TornDown(Self)
  /\ ConnectorCloseOutcomes # {}

\* C17: getProperties is forwarded to the enabled connection when one is
\* enabled; to the dummy connection when none is enabled and a dummy
\* connection exists; it fails with the "no connection" error when there
\* is neither.  It is sent to one connection at most, and not to the dummy
\* connection while a connection is enabled.
C17_GetPropertiesTarget ==
  LET m == getProperties(Self)
  IN /\ enabledConnection # NoConnection =>
          /\ m.log = <<Entry("getProperties", enabledConnection, None)>>
          /\ status = STATUS_BREAK
          /\ ~m.threw
     /\ (enabledConnection = NoConnection /\ dummyConnection # NoConnection) =>
          /\ m.log = <<Entry("getProperties", dummyConnection, None)>>
          /\ ~m.threw
     /\ (enabledConnection = NoConnection /\ dummyConnection = NoConnection) =>
          FailsNoConnection(m)
     /\ Cardinality(ForwardedTo(m.log)) <= 1
     /\ enabledConnection # dummyConnection \/ enabledConnection = NoConnection

\* C17 witness: a connection is enabled while a dummy connection exists,
\* and getProperties goes to the enabled one.
C17_Witness ==
  /\ enabledConnection # NoConnection
  /\ dummyConnection # NoConnection
  /\ ForwardedTo(getProperties(Self).log) = {enabledConnection}

\* The five operations that need an enabled connection, called on Self.
NeedEnabledOutcomes ==
  EvaluateOnCallFrameOutcomes(Self) \cup GetStackFramesOutcomes(Self)
    \cup GetScopesForFrameOutcomes(Self)
    \cup SendContinuationCommandOutcomes(Self)
    \cup SendBreakCommandOutcomes(Self)

\* C18: with no connection enabled, getStackFrames resolves to an empty
\* stack, sendBreakCommand resolves to false, and evaluateOnCallFrame,
\* getScopesForFrame and sendContinuationCommand fail with the "no
\* connection" error; none of them sends anything to a connection.  With a
\* connection enabled, each of them is forwarded, with its arguments, to
\* that connection and to no other.
C18_NeedEnabledConnection ==
  IF enabledConnection = NoConnection
    THEN /\ ResolvesDefault(getStackFrames(Self), "{stack: []}")
         /\ ResolvesDefault(sendBreakCommand(Self), "false")
         /\ \A m \in EvaluateOnCallFrameOutcomes(Self)
                      \cup GetScopesForFrameOutcomes(Self)
                      \cup SendContinuationCommandOutcomes(Self) :
              FailsNoConnection(m)
         /\ \A m \in NeedEnabledOutcomes : ForwardedTo(m.log) = {}
    ELSE /\ \A m \in NeedEnabledOutcomes :
              ForwardedTo(m.log) = {enabledConnection} /\ ~m.threw
         /\ getStackFrames(Self).log =
              <<Entry("getStackFrames", enabledConnection, None)>>
         /\ sendBreakCommand(Self).log =
              <<Entry("sendBreakCommand", enabledConnection, None)>>
         /\ sendContinuationCommand(Self, COMMAND_RUN).log =
              <<Entry("sendContinuationCommand", enabledConnection, COMMAND_RUN)>>
         /\ \A f \in Frames :
              /\ getScopesForFrame(Self, f).log =
                   <<Entry("getScopesForFrame", enabledConnection, f)>>
              /\ \A w \in BOOLEAN :
                   Head(evaluateOnCallFrame(Self, f, w).log) =
                     Entry("evaluateOnCallFrame", enabledConnection, f)

\* C18 witness: no connection is enabled although connections are tracked
\* and a dummy connection exists; the calls go nowhere.
C18_Witness ==
  /\ enabledConnection = NoConnection
  /\ dummyConnection # NoConnection
  /\ Len(connections) >= 1
  /\ FailsNoConnection(sendContinuationCommand(Self, COMMAND_RUN))
  /\ ResolvesDefault(getStackFrames(Self), "{stack: []}")

\* C19: an attach whose handshake message isCorrectConnection rejects is
\* failed and nothing else: no Connection is constructed, the map, the
\* dummy slot, the enabled slot, the global status and the connections
\* registered with the BreakpointStore are as before, nothing is awaited
\* and no status event is emitted.
C19_IncorrectAttachFailed ==
  connectorState = "listening" =>
    \A dummy \in BOOLEAN :
      LET m == onAttach(Self, FALSE, dummy)
      IN /\ m.log = <<Entry("failConnection", NoConnection, None)>>
         /\ m.sockets = sockets
         /\ m.connections = connections
         /\ m.dummyConnection = dummyConnection
         /\ m.enabledConnection = enabledConnection
         /\ m.status = status
         /\ m.registered = registered
         /\ m.pendingStatus = pendingStatus
         /\ m.pendingDummy = pendingDummy
         /\ Emitted(m.log) = <<>>

\* C19 witness: a rejected attach arrives while a connection is tracked
\* and enabled and the connector can still accept a socket.
C19_Witness ==
  /\ connectorState = "listening"
  /\ sockets < MaxSockets
  /\ enabledConnection \in Keys(connections)
  /\ onAttach(Self, FALSE, FALSE) \in AttachOutcomes
  /\ onAttach(Self, FALSE, FALSE).sockets = sockets

\* The log l holds an entry of each kind of kinds, for the connection c, in
\* the order of kinds.
InOrder(l, c, kinds) ==
  \E p \in [1..Len(kinds) -> 1..Len(l)] :
    /\ \A k \in 1..Len(kinds) : l[p[k]].ev = kinds[k] /\ l[p[k]].conn = c
    /\ \A k \in 1..(Len(kinds) - 1) : p[k] < p[k + 1]

\* C20 (as claimed): when the initial status query of a connection fails,
\* the rest of _onAttach logs the error and handles the status ERROR for
\* that connection: its subscription is disposed, the connection is
\* disposed, its entry is removed and the END check runs; nothing is
\* thrown, the other tracked connections and their cached statuses are as
\* before, and so is the enabled slot unless it held that connection.
C20_FailedQueryIsError ==
  \A c \in pendingStatus :
    LET m == onAttachStatus(Self, c, FALSE, STATUS_ERROR)
    IN /\ ~m.threw
       /\ InOrder(m.log, c,
                  <<"logError", "connectionOnStatus", "unsubscribe",
                    "disposeConnection", "delete">>)
       /\ PositionsOf(m.log, "checkForEnd") # {}
       /\ Positions(m.log, Entry("connectionOnStatus", c, STATUS_ERROR)) # {}
       /\ ~Has(m.connections, c)
       /\ c \in m.disposed /\ c \in m.unsubscribed
       /\ m.connections = Delete(connections, c)
       /\ m.disposed \ {c} = disposed \ {c}
       /\ enabledConnection # c => m.enabledConnection = enabledConnection

\* The invariants of the multiplexer, in the fields m: at most one
\* connection is enabled and it is a tracked one; a connection is enabled
\* only in BREAK; in BREAK the enabled connection's cached status is BREAK;
\* in RUNNING no connection is enabled; in END no connection is enabled and
\* the map is empty.
Consistent(m) ==
  /\ Cardinality({c \in Keys(m.connections) : c = m.enabledConnection}) <= 1
  /\ m.enabledConnection # NoConnection =>
       m.status = STATUS_BREAK /\ Has(m.connections, m.enabledConnection)
  /\ m.status = STATUS_BREAK =>
       /\ Has(m.connections, m.enabledConnection)
       /\ InfoStatus(m.connections, m.enabledConnection) = STATUS_BREAK
  /\ m.status = STATUS_RUNNING => m.enabledConnection = NoConnection
  /\ m.status = STATUS_END =>
       m.enabledConnection = NoConnection /\ Len(m.connections) = 0

\* C21 (as claimed): whatever the interleaving of attaches, completions of
\* initial status queries, status callbacks, connector close and dispose,
\* the invariants of the multiplexer hold in the fields every callback
\* leaves when it returns to the event loop.
C21_ConsistentAfterEachCallback ==
  /\ Consistent(Self)
  /\ \A m \in Outcomes : Consistent(m)

\* C22: when a tracked connection reports STARTING or STOPPING, the
\* callback sends one run command to that connection and does nothing
\* else: the global status, the enabled connection, the tracked
\* connections and the statuses cached for the others are as before, the
\* status cached for the reporter is the one reported, no status event is
\* emitted and no connection is enabled or disabled.
C22_StartingStoppingOnlyRuns ==
  \A c \in Keys(connections) :
    \A st \in {STATUS_STARTING, STATUS_STOPPING} :
      LET m == connectionOnStatus(Self, c, st)
      IN /\ m.log = <<Entry("connectionOnStatus", c, st),
                      Entry("sendContinuationCommand", c, COMMAND_RUN)>>
         /\ m.status = status
         /\ m.enabledConnection = enabledConnection
         /\ m.connections = SetInfoStatus(connections, c, st)
         /\ KeySeq(m.connections) = KeySeq(connections)
         /\ m.disposed = disposed /\ m.unsubscribed = unsubscribed
         /\ m.connector = connector
         /\ ~m.threw

\* C22 witness: connection 1 is enabled, connection 2 is in BREAK and
\* disabled, and 2 reports STOPPING.
C22_Witness ==
  /\ enabledConnection = 1
  /\ Has(connections, 2)
  /\ InfoStatus(connections, 2) = STATUS_BREAK
  /\ connectionOnStatus(Self, 2, STATUS_STOPPING) \in ConnectionStatusOutcomes
  /\ InfoStatus(connectionOnStatus(Self, 2, STATUS_STOPPING).connections, 2)
       = STATUS_STOPPING

\* The log l removes the connection c: its subscription is disposed, the
\* connection is disposed and its entry is deleted, each once.
Removes(l, c) ==
  /\ Cardinality(Positions(l, Entry("unsubscribe", c, None))) = 1
  /\ Cardinality(Positions(l, Entry("disposeConnection", c, None))) = 1
  /\ Cardinality(Positions(l, Entry("delete", c, None))) = 1

\* In the log l the enabled slot, holding c, is cleared and RUNNING is
\* emitted with no connection enabled, in this order.
Disables(l, c) ==
  \E d \in Positions(l, Entry("disable", c, None)) :
    \E r \in Positions(l, Entry("emit", NoConnection, STATUS_RUNNING)) : d < r

\* C23 (as claimed): a tracked connection that reports STOPPED, ERROR or
\* END is removed; if it is the enabled connection, the slot is cleared and
\* RUNNING emitted before its subscription and the connection are disposed
\* and before its entry is deleted.
C23_DisabledBeforeRemoved ==
  \A c \in Keys(connections) :
    \A st \in Terminal :
      LET m == connectionOnStatus(Self, c, st)
          l == m.log
      IN /\ Removes(l, c)
         /\ ~Has(m.connections, c)
         /\ c = enabledConnection =>
              /\ Disables(l, c)
              /\ \A r \in Positions(l, Entry("emit", NoConnection, STATUS_RUNNING)) :
                   \A x \in Positions(l, Entry("unsubscribe", c, None))
                            \cup Positions(l, Entry("disposeConnection", c, None))
                            \cup Positions(l, Entry("delete", c, None)) :
                     r < x

\* C23 (amended): a tracked connection that reports STOPPED, ERROR or END
\* is removed: its subscription is disposed, then the connection is
\* disposed, then its entry is deleted.  If it is the enabled connection,
\* the slot is cleared and RUNNING emitted after these three and before
\* the END check; if it is not, no connection is disabled.
C23_RemovedThenDisabled ==
  \A c \in Keys(connections) :
    \A st \in Terminal :
      LET m == connectionOnStatus(Self, c, st)
          l == m.log
      IN /\ Removes(l, c)
         /\ InOrder(l, c, <<"unsubscribe", "disposeConnection", "delete">>)
         /\ ~Has(m.connections, c)
         /\ c \in m.unsubscribed /\ c \in m.disposed
         /\ KeySeq(m.connections) = KeySeq(Delete(connections, c))
         /\ IF c = enabledConnection
              THEN /\ Disables(l, c)
                   /\ InOrder(l, c, <<"delete", "disable">>)
                   /\ \A r \in Positions(l, Entry("emit", NoConnection, STATUS_RUNNING)) :
                        \A k \in PositionsOf(l, "checkForEnd") : r < k
                   /\ m.enabledConnection # c
              ELSE PositionsOf(l, "disable") = {}

\* C23 witness: connection 1 is enabled, connection 2 is tracked too, and
\* 1 reports ERROR: it is removed, then disabled.
C23_Witness ==
  /\ enabledConnection = 1
  /\ Has(connections, 2)
  /\ InOrder(connectionOnStatus(Self, 1, STATUS_ERROR).log, 1,
             <<"unsubscribe", "disposeConnection", "delete", "disable">>)

\* C24: while a connection E is enabled, a status event of any kind from
\* another tracked connection, whether notified or the result of its
\* initial status query, and an attach of any kind, leaves E enabled and
\* the global status BREAK, emits no status event and enables or disables
\* no connection.
C24_OneBreakAtATime ==
  enabledConnection # NoConnection =>
    /\ \A c \in Keys(connections) \ {enabledConnection} :
         \A st \in Status :
           LET m == connectionOnStatus(Self, c, st)
           IN /\ m.enabledConnection = enabledConnection
              /\ m.status = STATUS_BREAK
              /\ Emitted(m.log) = <<>>
              /\ PositionsOf(m.log, "enable") = {}
              /\ PositionsOf(m.log, "disable") = {}
    /\ \A c \in pendingStatus \ {enabledConnection} :
         \A st \in Status :
           \A ok \in BOOLEAN :
             LET m == onAttachStatus(Self, c, ok, st)
             IN /\ m.enabledConnection = enabledConnection
                /\ m.status = STATUS_BREAK
                /\ Emitted(m.log) = <<>>
    /\ \A m \in AttachOutcomes \cup DummyRunDoneOutcomes :
         /\ m.enabledConnection = enabledConnection
         /\ m.status = STATUS_BREAK
         /\ Emitted(m.log) = <<>>

\* C24 witness: connection 1 is enabled and connection 2, in BREAK too,
\* reports a terminal status while a further attach is possible.
C24_Witness ==
  /\ enabledConnection = 1
  /\ Has(connections, 2)
  /\ InfoStatus(connections, 2) = STATUS_BREAK
  /\ connectionOnStatus(Self, 2, STATUS_END).enabledConnection = 1
  /\ AttachOutcomes # {}

\* C25 (as claimed): at the end of every callback, if the status cached
\* for some tracked connection is BREAK, then a connection is enabled and
\* the global status is BREAK.
C25_BrokenImpliesEnabled ==
  /\ Broken(connections) # {} =>
       enabledConnection # NoConnection /\ status = STATUS_BREAK
  /\ \A m \in Outcomes :
       Broken(m.connections) # {} =>
         m.enabledConnection # NoConnection /\ m.status = STATUS_BREAK

\* C26: an attach that is validated and not a dummy one registers the new
\* connection with the BreakpointStore, subscribes to its status and
\* inserts it in the map, in this order and before the initial status
\* query is issued, and sends it no run command.  No callback registers a
\* connection that is registered already, and a run command goes only to a
\* dummy connection under construction or to a connection that is
\* registered and in the map.
C26_RegisteredBeforeQuery ==
  /\ (connectorState = "listening" /\ sockets < MaxSockets) =>
       LET m == onAttach(Self, TRUE, FALSE)
           c == sockets + 1
       IN /\ m.log = <<Entry("addConnection", c, None),
                       Entry("onStatus", c, None),
                       Entry("set", c, STATUS_STARTING),
                       Entry("getStatus", c, None)>>
          /\ c \notin registered /\ m.registered = registered \cup {c}
          /\ ~Has(connections, c) /\ Has(m.connections, c)
          /\ c \notin pendingStatus /\ m.pendingStatus = pendingStatus \cup {c}
  /\ \A m \in Outcomes :
       /\ Cardinality(PositionsOf(m.log, "addConnection")) <= 1
       /\ \A i \in PositionsOf(m.log, "addConnection") :
            m.log[i].conn \notin registered
       /\ \A i \in PositionsOf(m.log, "sendContinuationCommand") :
            m.log[i].conn \notin m.pendingDummy =>
              /\ m.log[i].conn \in registered
              /\ Has(connections, m.log[i].conn)
  /\ pendingStatus \subseteq registered
  /\ Keys(connections) \subseteq registered

\* C26 witness: a second validated attach arrives while the first
\* connection is tracked and enabled.
C26_Witness ==
  /\ connectorState = "listening"
  /\ sockets = 1
  /\ enabledConnection = 1
  /\ PositionsOf(onAttach(Self, TRUE, FALSE).log, "addConnection") = {1}

\* The positions of the log l at which a status of the connection c is
\* handled, notified by c or obtained by the initial status query.
Reports(l, c) ==
  {i \in PositionsOf(l, "connectionOnStatus") : l[i].conn = c}

DummyConnections(m) ==
  m.pendingDummy \cup ({m.dummyConnection} \ {NoConnection})

\* C28 (as claimed): a validated dummy attach sends the run command to the
\* new connection at once and wires it to the dummy slot when the command
\* completes, without touching the map, the BreakpointStore registrations,
\* the enabled slot or the global status; a dummy connection is never a
\* tracked, registered or enabled one; and at most one dummy connection
\* exists at a time.
C28_DummyAttach ==
  /\ connectorState = "listening" =>
       LET m == onAttach(Self, TRUE, TRUE)
           c == sockets + 1
       IN /\ m.log = <<Entry("sendContinuationCommand", c, COMMAND_RUN)>>
          /\ m.pendingDummy = pendingDummy \cup {c}
          /\ m.connections = connections
          /\ m.registered = registered
          /\ m.enabledConnection = enabledConnection
          /\ m.status = status
  /\ \A m \in DummyRunDoneOutcomes :
       /\ m.dummyConnection \in pendingDummy
       /\ m.connections = connections
       /\ m.registered = registered
       /\ m.enabledConnection = enabledConnection
       /\ m.status = status
       /\ Emitted(m.log) = <<>>
  /\ \A c \in DummyConnections(Self) :
       ~Has(connections, c) /\ c \notin registered /\ c # enabledConnection
  /\ Cardinality(DummyConnections(Self)) <= 1

\* C29: runtimeEvaluate asks the dummy connection, for the top frame,
\* whether or not a connection is enabled and whatever the global status;
\* without a dummy connection it fails with the "no connection" error and
\* sends nothing to any connection, the enabled one included.
C29_RuntimeEvaluateOnDummy ==
  \A w \in BOOLEAN :
    LET m == runtimeEvaluate(Self, w)
    IN IF dummyConnection # NoConnection
         THEN /\ Head(m.log) =
                   Entry("evaluateOnCallFrame", dummyConnection, TopFrame)
              /\ ForwardedTo(m.log) = {dummyConnection}
              /\ Cardinality(PositionsOf(m.log, "evaluateOnCallFrame")) = 1
              /\ ~m.threw
         ELSE /\ FailsNoConnection(m)
              /\ ForwardedTo(m.log) = {}

\* C29 witness: a connection is enabled in BREAK and no dummy connection
\* has been established.
C29_Witness ==
  /\ enabledConnection # NoConnection
  /\ status = STATUS_BREAK
  /\ dummyConnection = NoConnection
  /\ FailsNoConnection(runtimeEvaluate(Self, FALSE))

\* The log of an evaluation sent to the connection c for the frame f whose
\* result has wasThrown = w: the call, one error message on the console if
\* the result was thrown and none if not, and the result returned.
EvaluationLog(c, f, w) ==
  <<Entry("evaluateOnCallFrame", c, f)>>
    \o (IF w
          THEN <<Entry("sendUserMessage", NoConnection,
                       "console error: Failed to evaluate")>>
          ELSE <<>>)
    \o <<Entry("return", c, Result(w))>>

\* C30: an evaluation, by evaluateOnCallFrame on the enabled connection or
\* by runtimeEvaluate on the dummy connection, whose result is marked as
\* thrown sends one error message to the console and returns the result to
\* the caller; one whose result is not thrown sends no message and returns
\* the result; either way nothing is thrown and every field of the
\* multiplexer is as before.
C30_ThrownResultReported ==
  \A w \in BOOLEAN :
    /\ enabledConnection # NoConnection =>
         \A f \in Frames :
           LET m == evaluateOnCallFrame(Self, f, w)
           IN /\ m.log = EvaluationLog(enabledConnection, f, w)
              /\ Cardinality(PositionsOf(m.log, "sendUserMessage"))
                   = IF w THEN 1 ELSE 0
              /\ ~m.threw
              /\ After(m) = Self
    /\ dummyConnection # NoConnection =>
         LET m == runtimeEvaluate(Self, w)
         IN /\ m.log = EvaluationLog(dummyConnection, TopFrame, w)
            /\ Cardinality(PositionsOf(m.log, "sendUserMessage"))
                 = IF w THEN 1 ELSE 0
            /\ ~m.threw
            /\ After(m) = Self

\* C30 witness: a connection is enabled and a dummy connection exists, and
\* an evaluation on the enabled connection comes back thrown.
C30_Witness ==
  /\ enabledConnection # NoConnection
  /\ dummyConnection # NoConnection
  /\ evaluateOnCallFrame(Self, TopFrame, TRUE) \in EvaluateOnCallFrameOutcomes(Self)
  /\ PositionsOf(evaluateOnCallFrame(Self, TopFrame, TRUE).log, "sendUserMessage")
       = {2}

\* C31: listen(), called in the initial state, registers the attach, close
\* and error handlers with the connector, sets the global status RUNNING,
\* starts the connector, sends the pre-loading message once and starts the
\* warm-up request.  When the warm-up process cannot be spawned, listen()
\* does the same and throws nothing: the status is RUNNING and the
\* connector is listening, so that sockets can attach.
C31_ListenStartsSession ==
  (status = STATUS_STARTING /\ ~connector) =>
    \A spawnFails \in BOOLEAN :
      LET m == listen(Self, spawnFails)
          l == m.log
      IN /\ m.status = STATUS_RUNNING
         /\ m.connector /\ m.connectorState = "listening"
         /\ ~m.threw
         /\ \A h \in {"connector.onAttach", "connector.onClose", "connector.onError"} :
              /\ PositionsOf(l, h) # {}
              /\ \A i \in PositionsOf(l, h) :
                   \A k \in PositionsOf(l, "connector.listen") : i < k
         /\ Cardinality(PositionsOf(l, "connector.listen")) = 1
         /\ Cardinality(Positions(l, Entry("sendUserMessage", NoConnection,
                                           "Pre-loading, please wait..."))) = 1
         /\ Cardinality(PositionsOf(l, "sendDummyRequest")) = 1
         /\ m.dummyRequestProcess # "null"
         /\ m.connections = connections
         /\ m.enabledConnection = NoConnection
         /\ Emitted(l) = <<>>

\* C31 witness: listen() was called, the session is RUNNING and the
\* connector accepts a socket.
C31_Witness ==
  /\ status = STATUS_RUNNING
  /\ connectorState = "listening"
  /\ dummyRequestProcess = "spawned"
  /\ sockets = 0
  /\ \E m \in AttachOutcomes : m.sockets = 1

\* The Connections constructed so far, tracked or dummy.
Created(m) == 1..m.sockets

\* C32 (as claimed): a tracked connection that reports a terminal status
\* is disposed; and when dispose() returns, every Connection constructed
\* from an accepted socket, tracked or dummy, wired or with its attach
\* handling still awaited, has been disposed and is referenced by no field
\* of the multiplexer and by no pending continuation that would wire it.
C32_AllConnectionsDestroyed ==
  /\ \A c \in Keys(connections) :
       \A st \in Terminal :
         c \in connectionOnStatus(Self, c, st).disposed
  /\ LET m == dispose(Self)
     IN \A c \in Created(m) :
          /\ c \in m.disposed
          /\ ~Has(m.connections, c)
          /\ c # m.enabledConnection
          /\ c # m.dummyConnection
          /\ c \notin m.pendingDummy

\* C33 (as claimed): when the initial status query of a connection
\* completes, resolved or rejected, after the connection was removed from
\* the map, the rest of _onAttach looks up no missing ConnectionInfo,
\* throws nothing and sends no command to the disposed connection.
C33_QueryAfterRemoval ==
  \A c \in pendingStatus :
    \A st \in Status :
      \A ok \in BOOLEAN :
        LET m == onAttachStatus(Self, c, ok, st)
        IN /\ ~m.threw
           /\ PositionsOf(m.log, "TypeError") = {}
           /\ c \in disposed =>
                Positions(m.log,
                          Entry("sendContinuationCommand", c, COMMAND_RUN)) = {}

\* C34: when a callback has returned, the enabled connection, if there is
\* one, is in the map, and neither it nor its status subscription has been
\* disposed; and a forwarding operation is sent only to the enabled
\* connection or to the dummy connection, never to a connection that was
\* removed from the map or disposed.
C34_ForwardOnlyToLive ==
  /\ enabledConnection # NoConnection =>
       /\ Has(connections, enabledConnection)
       /\ enabledConnection \notin disposed
       /\ enabledConnection \notin unsubscribed
  /\ disposed \cap Keys(connections) = {}
  /\ \A m \in ForwardingOutcomes(Self) :
       /\ ForwardedTo(m.log) \cap disposed = {}
       /\ ForwardedTo(m.log) \subseteq
            (Keys(connections) \cap {enabledConnection}) \cup DummyConnections(Self)

\* C34 witness: a connection was removed and disposed, another one is
\* enabled, and a continuation command goes to the enabled one.
C34_Witness ==
  /\ disposed # {}
  /\ enabledConnection # NoConnection
  /\ ForwardedTo(sendContinuationCommand(Self, COMMAND_RUN).log)
       = {enabledConnection}

\* C35 (as claimed): listen() emits RUNNING to the subscribers, and once
\* listen() has been called the status of the last event emitted is the
\* one getStatus() returns.
C35_LastEventIsStatus ==
  /\ \A m \in ListenOutcomes : Emitted(m.log) = <<STATUS_RUNNING>>
  /\ connectorState # "none" => lastEmitted = getStatus(Self)

\* The number of times the log l disposes the connection c, disposes its
\* status subscription, and deletes its entry from the map.
Disposals(l, c) == Cardinality(Positions(l, Entry("disposeConnection", c, None)))
Unsubscriptions(l, c) == Cardinality(Positions(l, Entry("unsubscribe", c, None)))
Deletions(l, c) == Cardinality(Positions(l, Entry("delete", c, None)))

\* C36: a connection that was inserted in the map is disposed if and only
\* if it is no longer in the map, and its status subscription is disposed
\* exactly when it is.  No callback (a status event, the completed status
\* query, the connector's close or error event, dispose(), an attach, a
\* forwarding operation) disposes a connection or a subscription more than
\* once, or one that was disposed before, or one that it leaves in the map;
\* a callback that drops a connection from the map disposes the connection
\* and its subscription once each.
C36_DisposedExactlyOnce ==
  /\ disposed = registered \ Keys(connections)
  /\ unsubscribed = disposed
  /\ \A m \in Outcomes :
       /\ m.disposed = m.registered \ Keys(m.connections)
       /\ m.unsubscribed = m.disposed
       /\ LET removed == Keys(connections) \ Keys(m.connections)
          IN /\ \A kind \in {"disposeConnection", "unsubscribe", "delete"} :
                  LET at == PositionsOf(m.log, kind)
                  IN /\ {m.log[i].conn : i \in at} = removed
                     /\ Cardinality(at) = Cardinality(removed)
             /\ removed \cap disposed = {}
             /\ removed \cap unsubscribed = {}

\* C36 witness: connection 1 was removed and disposed, connection 2 is
\* tracked, and its initial status query is still pending for the removed
\* connection 1; dispose() then disposes 2 once and 1 not again.
C36_Witness ==
  /\ disposed = {1}
  /\ Has(connections, 2)
  /\ 1 \in pendingStatus
  /\ Disposals(dispose(Self).log, 2) = 1
  /\ Disposals(dispose(Self).log, 1) = 0
  /\ \A st \in Terminal : Disposals(onAttachStatus(Self, 1, TRUE, st).log, 1) = 0

\* ---- termination of the session ----

\* The tracked connection c reports STOPPED, ERROR or END through its
\* status subscription.
TerminalStatus(c) ==
  /\ c \in registered \ unsubscribed
  /\ \E m \in {connectionOnStatus(Self, c, st) : st \in Terminal} : Store(m)

\* The session under the premises of termination, with the callbacks
\* scheduled fairly: the close event of the connector, once it listens or
\* was disposed, is eventually delivered, and every connection eventually
\* reports a terminal status for as long as it is tracked.
FairSpec ==
  /\ Spec
  /\ WF_vars(ConnectorClose)
  /\ \A c \in 1..MaxSockets : WF_vars(TerminalStatus(c))

\* The session has ended: the global status is END, no connection is
\* tracked and the connector field is cleared.
Ended == status = STATUS_END /\ Len(connections) = 0 /\ ~connector

\* C37: once listen() has been called, if the connector eventually closes
\* and every tracked connection eventually reports STOPPED, ERROR or END,
\* then the global status eventually becomes END with the tracked map
\* empty, and the session stays ended from then on.
C37_SessionTerminates ==
  /\ (connectorState # "none") ~> Ended
  /\ [][Ended => Ended']_vars

\* C37 witness: the session ended with the connector closed by itself
\* (never disposed by the multiplexer's dispose()) after two tracked
\* connections reported a terminal status and were removed.
C37_Witness ==
  /\ Ended
  /\ connectorState = "closed"
  /\ disposed = {1, 2}
  /\ dummyRequestProcess = "spawned"
  /\ lastEmitted = STATUS_END

\* ---- FileCache (FileCache.js) ----

\* The fields of the FileCache, with the value a call returns.
CacheSelf == [files |-> files, created |-> created, sent |-> sent, result |-> 0]

\* this._files.set(filepath, file)
MapSet(map, key, value) ==
  [k \in DOMAIN map \cup {key} |-> IF k = key THEN value ELSE map[k]]

\* The message registerFile gives to sendMethod (lines 33-41).
ScriptParsed(filepath, fileUrl) ==
  [method |-> "Debugger.scriptParsed", scriptId |-> filepath, url |-> fileUrl]

\* Mutant of registerFile: the file is announced at every registration.
registerFileAlwaysAnnounces(m, fileUrl) ==
  LET filepath == uriToPath[fileUrl]
      m1 == IF filepath \notin DOMAIN m.files
              THEN [m EXCEPT !.created = @ + 1,
                             !.files = MapSet(@, filepath, m.created + 1)]
              ELSE m
      m2 == [m1 EXCEPT !.sent = Append(@, ScriptParsed(filepath, fileUrl))]
  IN [m2 EXCEPT !.result = m2.files[filepath]]

\* registerFile(fileUrl)
registerFile(m, fileUrl) ==
  LET filepath == uriToPath[fileUrl]
      m1 == IF filepath \notin DOMAIN m.files
              THEN [m EXCEPT !.created = @ + 1,
                             !.files = MapSet(@, filepath, m.created + 1),
                             !.sent = Append(@, ScriptParsed(filepath, fileUrl))]
              ELSE m
  IN [m1 EXCEPT !.result = m1.files[filepath]]

\* getFileSource(filepath): the result is the source of the File that
\* registerFile returns, named here by that File.
getFileSource(m, filepath) == registerFile(m, filepath)

CacheStore(m) ==
  /\ files' = m.files
  /\ created' = m.created
  /\ sent' = m.sent
  /\ UNCHANGED uriToPath
  /\ UNCHANGED muxVars
  /\ UNCHANGED textVars

\* After the constructor (lines 22-25); uriToPath is some function from
\* strings to strings.
CacheInit ==
  /\ uriToPath \in [FileNames -> FileNames]
  /\ files = EmptyMap
  /\ created = 0
  /\ sent = <<>>
  /\ MuxIdle
  /\ TextIdle

RegisterFile == \E fileUrl \in FileNames : CacheStore(registerFile(CacheSelf, fileUrl))

GetFileSource == \E filepath \in FileNames : CacheStore(getFileSource(CacheSelf, filepath))

CacheNext == RegisterFile \/ GetFileSource

CacheSpec == CacheInit /\ [][CacheNext]_vars

\* The positions of the messages sent that announce the path p.
Announcements(msgs, p) ==
  {i \in 1..Len(msgs) :
     msgs[i].method = "Debugger.scriptParsed" /\ msgs[i].scriptId = p}

\* C38: over any sequence of registerFile and getFileSource calls, a path
\* has been announced with Debugger.scriptParsed exactly once if it was
\* registered and never otherwise; a registration of a path that is in the
\* cache sends nothing and returns the File stored for it, the first
\* registration of a path sends the one announcement and returns a File
\* constructed for it; and the File stored for a path is never replaced.
C38_AnnouncedOnce ==
  /\ [](\A p \in FileNames :
          Cardinality(Announcements(sent, p)) = IF p \in DOMAIN files THEN 1 ELSE 0)
  /\ [](\A u \in FileNames :
          \A m \in {registerFile(CacheSelf, u), getFileSource(CacheSelf, u)} :
            LET p == uriToPath[u]
            IN IF p \in DOMAIN files
                 THEN /\ m.sent = sent
                      /\ m.files = files
                      /\ m.result = files[p]
                 ELSE /\ m.sent = Append(sent, ScriptParsed(p, u))
                      /\ m.result = m.files[p]
                      /\ \A q \in DOMAIN files : files[q] # m.result)
  /\ [][\A p \in DOMAIN files : p \in DOMAIN files' /\ files'[p] = files[p]]_vars

\* C38 witness: two different strings name the same path, the path was
\* registered through the first, and a registration through the second
\* sends nothing and returns the same File.
C38_Witness ==
  \E u, v \in FileNames :
    /\ u # v
    /\ uriToPath[u] = uriToPath[v]
    /\ sent = <<ScriptParsed(uriToPath[u], u)>>
    /\ registerFile(CacheSelf, v).sent = sent
    /\ registerFile(CacheSelf, v).result = files[uriToPath[u]]

\* ---- TextCallbackContainer (unnamed/part_006, lines 33-142) ----

FILE_CHANGE_EVENTS == <<"did-change", "did-reload", "did-open">>
FILE_SAVE_EVENTS == <<"did-save", "did-reload", "did-open">>

\* The event lists the callers pass.
EventLists == {FILE_CHANGE_EVENTS, FILE_SAVE_EVENTS}

Grammars == {"a", "b"}

\* The grammarScopes argument: 'all', or an iterable of grammars, here
\* every list of at most two grammars.
All == [all |-> TRUE, scopes |-> <<>>]
Scopes(list) == [all |-> FALSE, scopes |-> list]
ScopeLists ==
  {<<>>} \cup {<<g>> : g \in Grammars} \cup {<<g, h>> : g \in Grammars, h \in Grammars}
GrammarScopes == {All} \cup {Scopes(list) : list \in ScopeLists}

\* map.delete(key)
MapDelete(map, key) == [k \in DOMAIN map \ {key} |-> map[k]]

\* The fields of the container, and whether the call in progress threw.
ContainerSelf ==
  [callbacks |-> callbacks, allGrammarCallbacks |-> allGrammarCallbacks,
   threw |-> FALSE]

\* isEmpty()
isEmpty(m) == DOMAIN m.callbacks = {} /\ DOMAIN m.allGrammarCallbacks = {}

\* _addToEventMap(eventMap, events, callback): the event map it leaves.
RECURSIVE addToEventMap(_, _, _)
addToEventMap(eventMap, events, callback) ==
  IF events = <<>> THEN eventMap
  ELSE LET event == Head(events)
           callbackSet == IF event \in DOMAIN eventMap THEN eventMap[event] ELSE {}
       IN addToEventMap(MapSet(eventMap, event, callbackSet \cup {callback}),
                        Tail(events), callback)

\* _removeFromEventMap(eventMap, events, callback): the event map it
\* leaves, and whether invariant(callbackSet) threw on the way.
RECURSIVE removeFromEventMap(_, _, _)
removeFromEventMap(eventMap, events, callback) ==
  IF events = <<>> THEN [map |-> eventMap, threw |-> FALSE]
  ELSE LET event == Head(events)
       IN IF event \notin DOMAIN eventMap
            THEN [map |-> eventMap, threw |-> TRUE]
            ELSE LET callbackSet == eventMap[event] \ {callback}
                 IN removeFromEventMap(
                      IF callbackSet = {} THEN MapDelete(eventMap, event)
                                          ELSE MapSet(eventMap, event, callbackSet),
                      Tail(events), callback)

\* The loop of addCallback over the grammar scopes.
RECURSIVE addForScopes(_, _, _, _)
addForScopes(m, scopes, events, callback) ==
  IF scopes = <<>> THEN m
  ELSE LET grammarScope == Head(scopes)
           eventMap == IF grammarScope \in DOMAIN m.callbacks
                         THEN m.callbacks[grammarScope] ELSE EmptyMap
           m1 == [m EXCEPT !.callbacks =
                    MapSet(@, grammarScope, addToEventMap(eventMap, events, callback))]
       IN addForScopes(m1, Tail(scopes), events, callback)

\* addCallback(grammarScopes, events, callback)
addCallback(m, grammarScopes, events, callback) ==
  IF grammarScopes.all
    THEN [m EXCEPT !.allGrammarCallbacks = addToEventMap(@, events, callback)]
    ELSE addForScopes(m, grammarScopes.scopes, events, callback)

\* The loop of removeCallback over the grammar scopes; it ends where an
\* invariant(...) throws, with the maps as they are at that point.
RECURSIVE removeForScopes(_, _, _, _)
removeForScopes(m, scopes, events, callback) ==
  IF scopes = <<>> THEN m
  ELSE LET grammarScope == Head(scopes)
       IN IF grammarScope \notin DOMAIN m.callbacks
            THEN [m EXCEPT !.threw = TRUE]
            ELSE LET r == removeFromEventMap(m.callbacks[grammarScope], events, callback)
                     m1 == [m EXCEPT !.callbacks = MapSet(@, grammarScope, r.map)]
                 IN IF r.threw THEN [m1 EXCEPT !.threw = TRUE]
                    ELSE removeForScopes(
                           IF DOMAIN r.map = {}
                             THEN [m1 EXCEPT !.callbacks = MapDelete(@, grammarScope)]
                             ELSE m1,
                           Tail(scopes), events, callback)

\* removeCallback(grammarScopes, events, callback)
removeCallback(m, grammarScopes, events, callback) ==
  IF grammarScopes.all
    THEN LET r == removeFromEventMap(m.allGrammarCallbacks, events, callback)
         IN [m EXCEPT !.allGrammarCallbacks = r.map, !.threw = r.threw]
    ELSE removeForScopes(m, grammarScopes.scopes, events, callback)

\* Callbacks given to a container.
Callbacks == 1..2

\* After the constructor of the container (lines 43-46).
ContainerInit ==
  /\ callbacks = EmptyMap
  /\ allGrammarCallbacks = EmptyMap
  /\ added = <<>>
  /\ editorListenerDisposable = NoDisposable
  /\ subscriptions = <<>>
  /\ MuxIdle
  /\ CacheIdle

ContainerStore(m) ==
  /\ callbacks' = m.callbacks
  /\ allGrammarCallbacks' = m.allGrammarCallbacks
  /\ UNCHANGED <<editorListenerDisposable, subscriptions>>
  /\ UNCHANGED muxVars
  /\ UNCHANGED cacheVars

\* A caller adds a callback.
AddCallback ==
  /\ Len(added) < MaxAdded
  /\ \E grammarScopes \in GrammarScopes, events \in EventLists, callback \in Callbacks :
       /\ added' = Append(added, <<grammarScopes, events, callback>>)
       /\ ContainerStore(addCallback(ContainerSelf, grammarScopes, events, callback))

\* A caller removes a callback it added, with the arguments of the add.
RemoveCallback ==
  \E i \in 1..Len(added) :
    /\ added' = SubSeq(added, 1, i - 1) \o SubSeq(added, i + 1, Len(added))
    /\ ContainerStore(removeCallback(ContainerSelf, added[i][1], added[i][2],
                                     added[i][3]))

ContainerNext == AddCallback \/ RemoveCallback

ContainerSpec == ContainerInit /\ [][ContainerNext]_vars

\* The callbacks the container m holds.
Held(m) ==
  UNION {UNION {m.callbacks[g][e] : e \in DOMAIN m.callbacks[g]} :
           g \in DOMAIN m.callbacks}
    \cup UNION {m.allGrammarCallbacks[e] : e \in DOMAIN m.allGrammarCallbacks}

\* C39 (as claimed): after any sequence of addCallback calls and matching
\* removeCallback calls no grammar maps to an empty event map and no event
\* maps to an empty callback set, and isEmpty() is true exactly when the
\* container holds no callback.
C39_NoEmptyMaps ==
  /\ \A g \in DOMAIN callbacks :
       /\ DOMAIN callbacks[g] # {}
       /\ \A e \in DOMAIN callbacks[g] : callbacks[g][e] # {}
  /\ \A e \in DOMAIN allGrammarCallbacks : allGrammarCallbacks[e] # {}
  /\ isEmpty(ContainerSelf) <=> Held(ContainerSelf) = {}

\* ---- TextEventDispatcher (unnamed/part_006, lines 162-279) ----

\* The fields of the dispatcher and of its container, and whether the
\* call in progress threw.  A set _editorListenerDisposable is named by
\* the number of times _registerEditorListeners added its listeners to it.
DispatcherSelf ==
  [callbacks |-> callbacks, allGrammarCallbacks |-> allGrammarCallbacks,
   editorListenerDisposable |-> editorListenerDisposable,
   subscriptions |-> subscriptions, threw |-> FALSE]

\* _registerEditorListeners()
registerEditorListeners(m) ==
  [m EXCEPT !.editorListenerDisposable = @ + 1]

\* _deregisterEditorListeners()
deregisterEditorListeners(m) ==
  [m EXCEPT !.editorListenerDisposable = NoDisposable]

\* The Disposable _onEvents returns: the arguments its action closes over,
\* and whether dispose() was called on it.
Subscription(grammarScopes, events, callback) ==
  [grammarScopes |-> grammarScopes, events |-> events, callback |-> callback,
   disposed |-> FALSE]

\* _onEvents(grammarScopes, events, callback); debounce(...) makes a new
\* function at every call, named here by the number of the subscription.
onEvents(m, grammarScopes, events) ==
  LET m1 == IF isEmpty(m) THEN registerEditorListeners(m) ELSE m
      debouncedCallback == Len(m.subscriptions) + 1
      m2 == addCallback(m1, grammarScopes, events, debouncedCallback)
  IN [m2 EXCEPT !.subscriptions =
        Append(@, Subscription(grammarScopes, events, debouncedCallback))]

onFileChange(m, scopes) == onEvents(m, Scopes(scopes), FILE_CHANGE_EVENTS)
onAnyFileChange(m) == onEvents(m, All, FILE_CHANGE_EVENTS)
onFileSave(m, scopes) == onEvents(m, Scopes(scopes), FILE_SAVE_EVENTS)
onAnyFileSave(m) == onEvents(m, All, FILE_SAVE_EVENTS)

\* dispose() of the i-th Disposable returned: a Disposable runs its action
\* at the first dispose() only, and the action (lines 187-192) ends where
\* removeCallback throws.
disposeSubscription(m, i) ==
  IF m.subscriptions[i].disposed THEN m
  ELSE LET s == m.subscriptions[i]
           m1 == [m EXCEPT !.subscriptions[i].disposed = TRUE]
           m2 == removeCallback(m1, s.grammarScopes, s.events, s.callback)
       IN IF m2.threw THEN m2
          ELSE IF isEmpty(m2) THEN deregisterEditorListeners(m2) ELSE m2

\* After the constructor of the dispatcher (lines 169-173).
DispatcherInit ==
  /\ callbacks = EmptyMap
  /\ allGrammarCallbacks = EmptyMap
  /\ added = <<>>
  /\ editorListenerDisposable = NoDisposable
  /\ subscriptions = <<>>
  /\ MuxIdle
  /\ CacheIdle

DispatcherStore(m) ==
  /\ callbacks' = m.callbacks
  /\ allGrammarCallbacks' = m.allGrammarCallbacks
  /\ editorListenerDisposable' = m.editorListenerDisposable
  /\ subscriptions' = m.subscriptions
  /\ UNCHANGED added
  /\ UNCHANGED muxVars
  /\ UNCHANGED cacheVars

OnFileChange ==
  /\ Len(subscriptions) < MaxSubscriptions
  /\ \E scopes \in ScopeLists : DispatcherStore(onFileChange(DispatcherSelf, scopes))

OnAnyFileChange ==
  /\ Len(subscriptions) < MaxSubscriptions
  /\ DispatcherStore(onAnyFileChange(DispatcherSelf))

OnFileSave ==
  /\ Len(subscriptions) < MaxSubscriptions
  /\ \E scopes \in ScopeLists : DispatcherStore(onFileSave(DispatcherSelf, scopes))

OnAnyFileSave ==
  /\ Len(subscriptions) < MaxSubscriptions
  /\ DispatcherStore(onAnyFileSave(DispatcherSelf))

DisposeSubscription ==
  \E i \in 1..Len(subscriptions) :
    DispatcherStore(disposeSubscription(DispatcherSelf, i))

DispatcherNext ==
  \/ OnFileChange
  \/ OnAnyFileChange
  \/ OnFileSave
  \/ OnAnyFileSave
  \/ DisposeSubscription

DispatcherSpec == DispatcherInit /\ [][DispatcherNext]_vars

\* The subscriptions that were made and not disposed.
Live(subs) == {i \in 1..Len(subs) : ~subs[i].disposed}

\* C40 (as claimed): after any sequence of onFileChange, onFileSave,
\* onAnyFileChange and onAnyFileSave subscriptions and of disposals of the
\* Disposables they returned, _editorListenerDisposable is set exactly
\* when at least one subscription is live.
C40_ListeningIffSubscribed ==
  editorListenerDisposable # NoDisposable <=> Live(subscriptions) # {}

====
